---- MODULE Spec2Model ----
(***************************************************************************)
(* EarthLiveWallpaper: the Himawari mosaic viewer.                         *)
(*                                                                         *)
(*   src/unnamed/part_000  the class-based viewer (ConfigManager,          *)
(*                         ImageGridManager, ImageLoader, ZoomManager,     *)
(*                         UIController, HimawariViewer)                   *)
(*   src/scripts/main.js   the single-grid script with global functions    *)
(*                                                                         *)
(* The state machines of this module share its variables:                  *)
(*   SpecZoom    the zoom operations of both scripts                       *)
(*   SpecLoader  one ImageLoader.loadImages batch, tile by tile            *)
(*   SpecLoaderFair  the same, every pending callback eventually firing    *)
(*   Spec        the HimawariViewer refresh cycles on its two surfaces     *)
(*   SpecLife    the HimawariViewer timers and listeners up to destroy()   *)
(*   SpecTime    the image time and the tile URL of both scripts           *)
(*   SpecFetch   the tile requests of one load cycle while the clock runs  *)
(*                                                                         *)
(* A step is one turn of the JavaScript event loop: an event handler or a  *)
(* timer callback together with the promise continuations it releases.     *)
(*                                                                         *)
(* Zoom factors are JavaScript numbers in the source; here they are exact  *)
(* rationals <<numerator, denominator>> in lowest terms, so every          *)
(* statement about them is a statement of exact arithmetic.                *)
(***************************************************************************)
EXTENDS Integers, Sequences, FiniteSets, TLC

VARIABLES
    \* ---- zoom (ConfigManager / ZoomManager, or main.js's config) ----
    script,        \* which script the page runs: "part_000" or "main.js"
    zoomLevel,     \* config.zoomLevel
    zoomToFit,     \* config.zoomToFit
    container,     \* .container clientWidth / clientHeight
    content,       \* scrollWidth / scrollHeight of the active grid
    resizeTimer,   \* part_000: the debounce timeout of the resize listener is pending
    lastOp,        \* history: the zoom function that ran last, with its inputs
    reapplied,     \* history: that call repeated the zoom call before it, inputs included
    nAdjust        \* history: number of adjustZoom calls so far

VARIABLES
    \* ---- ImageLoader and the two grid elements ----
    batches,       \* one record per ImageLoader.loadImages call, in call order
    grids,         \* "front" / "back" -> the element's children, as createGrid left them
    created        \* history: number of createGrid calls so far

VARIABLES
    \* ---- HimawariViewer ----
    resolution,    \* config.resolution
    activeGrid,    \* gridManager.activeGrid
    inactiveGrid,  \* gridManager.inactiveGrid
    isInitialized, \* this.isInitialized
    updateTimer,   \* this.updateTimer is set (the setInterval is running)
    initPc,        \* initialize(): "idle", "loading" (at its await), "done"
    swapTimers,    \* pending setTimeout(..., delaySwapGrids) callbacks
    wrapper,       \* width / height last written by ui.updateWrapperSize
    destroyed,     \* history: destroy() has been called
    cycles,        \* history: number of updateImages() calls so far
    earlyCycles,   \* history: how many of them ran before isInitialized was set
    lastCompleted, \* history: the batch whose 'complete' was emitted last
    listeners,     \* the functions registered for the window's 'resize' event
    updateErrors,  \* history: one entry per 'updateError', the value of cycles then
    setCalls,      \* history: the arguments of the setResolution calls, in call order
    swaps          \* history: number of swapGrids() calls so far

VARIABLES
    \* ---- HimawariImageSource / getHimawariUrl ----
    now,           \* the wall clock, ms since 1970-01-01T00:00:00Z
    timeAlignment, \* config.timeAlignment (main.js: tenMinutesInMs)
    timeOffset,    \* config.timeOffset (main.js: 30 * 60 * 1000)
    imageTime,     \* the image time computed last, ms since the epoch
    timeAt,        \* history: the wall clock at that computation
    url,           \* the tile URL built last
    preload        \* main.js: the preloadImages loop, with the URLs it has requested

zoomVars == <<script, zoomLevel, zoomToFit, container, content, resizeTimer,
              lastOp, reapplied, nAdjust>>

loaderVars == <<batches, grids, created>>

viewerVars == <<resolution, activeGrid, inactiveGrid, isInitialized, updateTimer,
                initPc, swapTimers, wrapper, destroyed, cycles, earlyCycles,
                lastCompleted, listeners, updateErrors, setCalls, swaps>>

timeVars == <<now, timeAlignment, timeOffset, imageTime, timeAt, url, preload>>

vars == <<zoomVars, loaderVars, viewerVars, timeVars>>

\* ------------------------------------------------------------------ bounds
MaxDim == 6        \* largest width / height of the container and of the content
MaxAdjust == 3     \* adjustZoom calls in one behaviour
MaxRes == 2        \* largest resolution (a grid has resolution * resolution tiles)
MaxFaulty == 1     \* tiles of one behaviour whose load attempts may fail
MaxCycles == 2     \* updateImages() calls in one behaviour
MaxErrors == 1     \* ticks of one behaviour whose updateImages() rejects
MaxSetCalls == 1   \* setResolution calls in one behaviour
MaxDays == 2       \* the wall clock runs over days 1 .. MaxDays after the epoch

\* ------------------------------------------------------------- rationals
RECURSIVE GCD(_, _)
GCD(a, b) == IF b = 0 THEN a ELSE GCD(b, a % b)

\* n / d in lowest terms (n >= 0, d > 0): the JavaScript division of two sizes
Rat(n, d) == LET g == GCD(n, d) IN <<n \div g, d \div g>>

RMul(p, q) == Rat(p[1] * q[1], p[2] * q[2])
RLe(p, q) == p[1] * q[2] <= q[1] * p[2]
RLt(p, q) == p[1] * q[2] < q[1] * p[2]
RMin(p, q) == IF RLe(p, q) THEN p ELSE q      \* Math.min
RMax(p, q) == IF RLe(p, q) THEN q ELSE p      \* Math.max
One == <<1, 1>>

\* ----------------------------------------------------------- configuration
minZoom == <<1, 5>>     \* minZoom: 0.2
maxZoom == <<5, 1>>     \* maxZoom: 5

Dims == {1, 2, MaxDim}
Sizes == [width : Dims, height : Dims]
Factors == {<<1, 2>>, <<1, 1>>, <<3, 2>>, <<2, 1>>}
Scripts == {"part_000", "main.js"}
GridIds == {"front", "back"}

NoOp == [name |-> "none", container |-> <<>>, content |-> <<>>, factor |-> <<>>]
Op(name, c, g, factor) ==
    [name |-> name, container |-> c, content |-> g, factor |-> factor]

\* every zoom call records itself and whether it repeats the call before it
Record(op) ==
    /\ lastOp' = op
    /\ reapplied' = (op = lastOp)

\* ------------------------------------------------- ZoomManager (part_000)
\* a clampZoom that forgets the lower bound
clampZoom_noMin(zoom) == RMin(zoom, maxZoom)

\* clampZoom(zoom): Math.max(minZoom, Math.min(zoom, maxZoom))
clampZoom(zoom) == RMax(minZoom, RMin(zoom, maxZoom))

\* a fitToScreen that takes the larger of the two scales
fitZoom_max(c, g) == RMax(Rat(c.width, g.width), Rat(c.height, g.height))

\* the fitZoom of fitToScreen: Math.min(scaleX, scaleY)
fitZoom(c, g) == RMin(Rat(c.width, g.width), Rat(c.height, g.height))

\* an applySafeZoom that scales the current zoom instead of replacing it
safeZoom_scaled(zoom, c, g) ==
    LET maxSafeScale == RMin(Rat(c.width, g.width), Rat(c.height, g.height))
    IN  IF RLt(maxSafeScale, zoom) THEN RMul(zoom, maxSafeScale) ELSE zoom

\* an applySafeZoom that always takes the largest scale that fits
safeZoom_fill(zoom, c, g) == RMin(Rat(c.width, g.width), Rat(c.height, g.height))

\* the zoom applySafeZoom leaves: lowered to maxSafeScale when above it
safeZoom(zoom, c, g) ==
    LET maxSafeScale == RMin(Rat(c.width, g.width), Rat(c.height, g.height))
    IN  IF RLt(maxSafeScale, zoom) THEN maxSafeScale ELSE zoom

\* ZoomManager.adjustZoom(factor)
ZoomManager_adjustZoom(factor) ==
    /\ zoomToFit' = FALSE
    /\ zoomLevel' = clampZoom(RMul(zoomLevel, factor))
    /\ Record(Op("adjustZoom", container, content, factor))

\* ZoomManager.applySafeZoom(containerDimensions, gridDimensions)
ZoomManager_applySafeZoom(c, g) ==
    /\ zoomLevel' = safeZoom(zoomLevel, c, g)
    /\ zoomToFit' = zoomToFit
    /\ Record(Op("applySafeZoom", c, g, <<>>))

\* ZoomManager.fitToScreen(containerDimensions, gridDimensions)
ZoomManager_fitToScreen(c, g) ==
    /\ zoomLevel' = fitZoom(c, g)
    /\ zoomToFit' = TRUE
    /\ Record(Op("fitToScreen", c, g, <<>>))

\* ZoomManager.resetZoom()
ZoomManager_resetZoom ==
    /\ zoomLevel' = One
    /\ zoomToFit' = FALSE
    /\ Record(Op("resetZoom", container, content, <<>>))

\* HimawariViewer.adjustZoom(factor)
adjustZoom(factor) ==
    /\ script = "part_000"
    /\ nAdjust < MaxAdjust
    /\ ZoomManager_adjustZoom(factor)
    /\ nAdjust' = nAdjust + 1
    /\ UNCHANGED <<script, container, content, resizeTimer>>

\* HimawariViewer.fitToScreen()
fitToScreen ==
    /\ script = "part_000"
    /\ ZoomManager_fitToScreen(container, content)
    /\ UNCHANGED <<script, container, content, resizeTimer, nAdjust>>

\* HimawariViewer.resetZoom()
resetZoom ==
    /\ script = "part_000"
    /\ ZoomManager_resetZoom
    /\ UNCHANGED <<script, container, content, resizeTimer, nAdjust>>

\* the listener setupEventListeners registers: this.debounce(() => ..., 300)
resizeListener == "debounce(handleResize)"

\* a window resize event: the container has its new size; the debounced
\* listener, while registered, (re)arms its 300 ms timeout
WindowResize(size) ==
    /\ script = "part_000"
    /\ container' = size
    /\ resizeTimer' = IF resizeListener \in listeners THEN TRUE ELSE resizeTimer
    /\ UNCHANGED <<script, zoomLevel, zoomToFit, content, lastOp, reapplied, nAdjust>>

\* the debounce timeout fires: HimawariViewer.handleResize()
handleResize ==
    /\ script = "part_000"
    /\ resizeTimer
    /\ resizeTimer' = FALSE
    /\ IF zoomToFit
       THEN ZoomManager_fitToScreen(container, content)
       ELSE ZoomManager_applySafeZoom(container, content)
    /\ UNCHANGED <<script, container, content, nAdjust>>

\* ------------------------------------------------------ main.js (globals)
\* applySafeZoom(): config.zoomLevel lowered to maxSafeScale when above it
main_safeZoom(zoom, c, g) ==
    LET maxSafeScale == RMin(Rat(c.width, g.width), Rat(c.height, g.height))
    IN  IF RLt(maxSafeScale, zoom) THEN maxSafeScale ELSE zoom

\* fitToScreen(): Math.min(scaleX, scaleY)
main_fitZoom(c, g) == RMin(Rat(c.width, g.width), Rat(c.height, g.height))

\* adjustZoom(factor): clamp into [0.2, 5], then applySafeZoom()
main_adjustZoom(factor) ==
    /\ script = "main.js"
    /\ nAdjust < MaxAdjust
    /\ zoomToFit' = FALSE
    /\ zoomLevel' = main_safeZoom(RMax(minZoom, RMin(RMul(zoomLevel, factor), maxZoom)),
                                  container, content)
    /\ nAdjust' = nAdjust + 1
    /\ Record(Op("adjustZoom", container, content, factor))
    /\ UNCHANGED <<script, container, content, resizeTimer>>

\* toggleFitToScreen(): flips config.zoomToFit, then fitToScreen() or resetZoom()
main_toggleFitToScreen ==
    /\ script = "main.js"
    /\ zoomToFit' = ~zoomToFit
    /\ IF zoomToFit'
       THEN /\ zoomLevel' = main_fitZoom(container, content)
            /\ Record(Op("fitToScreen", container, content, <<>>))
       ELSE /\ zoomLevel' = One
            /\ Record(Op("resetZoom", container, content, <<>>))
    /\ UNCHANGED <<script, container, content, resizeTimer, nAdjust>>

\* preloadImages: the last tile settled; fitToScreen() when config.zoomToFit
main_imagesLoaded ==
    /\ script = "main.js"
    /\ zoomToFit
    /\ zoomLevel' = main_fitZoom(container, content)
    /\ Record(Op("fitToScreen", container, content, <<>>))
    /\ UNCHANGED <<script, zoomToFit, container, content, resizeTimer, nAdjust>>

\* a window resize event: handleResize() runs at once (no debounce in main.js)
main_handleResize(size) ==
    /\ script = "main.js"
    /\ container' = size
    /\ IF zoomToFit
       THEN /\ zoomLevel' = main_fitZoom(size, content)
            /\ Record(Op("fitToScreen", size, content, <<>>))
       ELSE /\ zoomLevel' = main_safeZoom(zoomLevel, size, content)
            /\ Record(Op("applySafeZoom", size, content, <<>>))
    /\ UNCHANGED <<script, zoomToFit, content, resizeTimer, nAdjust>>

\* ------------------------------------------- HimawariImageSource (part_000)
msPerMinute == 60000
msPerHour == 3600000
msPerDay == 86400000

defaultAlignment == 600000     \* timeAlignment: 10 * 60 * 1000
defaultOffset == 1800000       \* timeOffset: 30 * 60 * 1000
imageType == "D531106"         \* imageType: 'D531106'

\* an image time that rounds up to the next multiple of the alignment
imageTimeOf_up(timeInMs, alignment, offset) ==
    timeInMs + (alignment - (timeInMs % alignment)) - offset

\* calculateImageTime: timeInMs - (timeInMs % alignment) - offset
\* (timeInMs >= 0, where the remainder of JavaScript is the modulus)
imageTimeOf(timeInMs, alignment, offset) ==
    timeInMs - (timeInMs % alignment) - offset

\* Date.prototype.getUTCHours / getUTCMinutes of a time t >= 0
getUTCHours(t) == (t \div msPerHour) % 24
getUTCMinutes(t) == (t \div msPerMinute) % 60

\* the civil date of a time t >= 0 in the proleptic Gregorian calendar:
\* [year, month (1 .. 12), date (1 .. 31)], as getUTCFullYear, getUTCMonth() + 1
\* and getUTCDate give them
utcDate(t) ==
    LET z == (t \div msPerDay) + 719468
        era == z \div 146097
        doe == z - era * 146097
        yoe == (doe - (doe \div 1460) + (doe \div 36524) - (doe \div 146096)) \div 365
        doy == doe - (365 * yoe + (yoe \div 4) - (yoe \div 100))
        mp == (5 * doy + 2) \div 153
        m == IF mp < 10 THEN mp + 3 ELSE mp - 9
    IN  [year |-> yoe + era * 400 + (IF m <= 2 THEN 1 ELSE 0),
         month |-> m,
         date |-> doy - ((153 * mp + 2) \div 5) + 1]

\* String(n).padStart(2, '0')
padStart2(n) == IF n < 10 THEN "0" \o ToString(n) ELSE ToString(n)

\* formatDateTime(date): `${year}/${month}/${day}/${hours}${minutes}`
formatDateTime(date) ==
    ToString(utcDate(date).year) \o "/" \o padStart2(utcDate(date).month) \o "/" \o
    padStart2(utcDate(date).date) \o "/" \o
    padStart2(getUTCHours(date)) \o padStart2(getUTCMinutes(date))

\* the template both scripts fill in
urlText(type, d, dateStr, x, y) ==
    "https://himawari8-dl.nict.go.jp/himawari8/img/" \o type \o "/" \o ToString(d) \o
    "d/550/" \o dateStr \o "00_" \o ToString(x) \o "_" \o ToString(y) \o ".png"

\* getImageUrl(x, y, resolution, imageType, time)
getImageUrl(x, y, res, type, time) == urlText(type, res, formatDateTime(time), x, y)

\* the URL built last, with the inputs it was built from
UrlOf(x, y, res, type, time, text) ==
    [x |-> x, y |-> y, resolution |-> res, imageType |-> type, time |-> time,
     text |-> text]

NoUrl == UrlOf(0, 0, 0, "", 0, "")

\* the wall clock is sampled at these times of day (ms after 00:00:00 UTC)
ClockTimes ==
    {0,                                         \* 00:00:00.000
     7 * msPerMinute,                           \* 00:07:00.000
     30 * msPerMinute - 1,                      \* 00:29:59.999
     4 * msPerHour + 30 * msPerMinute,          \* 04:30:00.000
     12 * msPerHour + 7 * msPerMinute,          \* 12:07:00.000
     msPerDay - 1}                              \* 23:59:59.999

Clock == {d * msPerDay + t : d \in 1..MaxDays, t \in ClockTimes}

Alignments == {defaultAlignment, 15 * msPerMinute, 7000}
Offsets == {defaultOffset, 3000}

\* time passes
ClockAdvance(t) ==
    /\ t > now
    /\ now' = t
    /\ UNCHANGED <<timeAlignment, timeOffset, imageTime, timeAt, url, preload>>

\* HimawariImageSource.calculateImageTime()
calculateImageTime ==
    /\ script = "part_000"
    /\ imageTime' = imageTimeOf(now, timeAlignment, timeOffset)
    /\ timeAt' = now
    /\ UNCHANGED <<now, timeAlignment, timeOffset, url, preload>>

\* HimawariImageSource.getImageUrl for tile (x, y) and the image time computed last
GetImageUrl(x, y) ==
    /\ script = "part_000"
    /\ timeAt > 0
    /\ url' = UrlOf(x, y, resolution, imageType, imageTime,
                    getImageUrl(x, y, resolution, imageType, imageTime))
    /\ UNCHANGED <<now, timeAlignment, timeOffset, imageTime, timeAt, preload>>

\* ------------------------------------------------------ main.js (globals)
\* getHimawariUrl(d, x, y, imageType): the image time is computed in the call,
\* and the hour of the date string is the literal "04"
main_getHimawariUrl(d, x, y, type) ==
    /\ script = "main.js"
    /\ imageTime' = now - (now % (10 * 60 * 1000)) - 30 * 60 * 1000
    /\ timeAt' = now
    /\ url' = UrlOf(x, y, d, type, imageTime',
                    urlText(type, d,
                            ToString(utcDate(imageTime').year) \o "/" \o
                            padStart2(utcDate(imageTime').month) \o "/" \o
                            padStart2(utcDate(imageTime').date) \o "/" \o
                            "04" \o padStart2(getUTCMinutes(imageTime')),
                            x, y))
    /\ UNCHANGED <<now, timeAlignment, timeOffset>>

\* no createImageGrid call yet
NoPreload == [d |-> 0, requests |-> <<>>]

\* createImageGrid(d, imageType) up to the loop of preloadImages: the grid is
\* rebuilt and no tile requested yet
main_createImageGrid(d) ==
    /\ script = "main.js"
    /\ preload = NoPreload
    /\ preload' = [d |-> d, requests |-> <<>>]
    /\ UNCHANGED <<now, timeAlignment, timeOffset, imageTime, timeAt, url>>

\* one iteration of the loop of preloadImages, row i and column j:
\* img.src = getHimawariUrl(d, j, i, imageType)
main_preloadTile ==
    /\ Len(preload.requests) < preload.d * preload.d
    /\ LET k == Len(preload.requests)
       IN  main_getHimawariUrl(preload.d, k % preload.d, k \div preload.d, imageType)
    /\ preload' = [preload EXCEPT !.requests = Append(@, url')]

\* ----------------------------------------------------------- ImageGridManager
\* a grid element before its first createGrid: no children
EmptyGrid == [serial |-> 0, columns |-> 0, images |-> <<>>]

\* createGrid(grid, resolution): the old children are dropped and fresh img
\* elements appended in document order, rows y = 0 .. resolution-1 and within
\* a row x = 0 .. resolution-1.  serial tells the elements of one call from
\* those of every other call.
createGrid(serial, res) ==
    [serial |-> serial,
     columns |-> res,
     images |-> [k \in 1..(res * res) |->
                    [x |-> (k - 1) % res, y |-> (k - 1) \div res]]]

\* scrollWidth / scrollHeight of a grid element, in tile widths: one square
\* tile per grid column and per grid row
gridDimensions(grid) == [width |-> grid.columns, height |-> grid.columns]

\* --------------------------------------------------------------- ImageLoader
retryAttempts == 3      \* constructor(imageSource, retryAttempts = 3)
backoffUnit == 1000     \* this.delay(1000 * attempt)

\* a loadImages that swaps the two coordinates of a tile
tileXY_swapped(index, res) == [x |-> index \div res, y |-> index % res]

\* loadImages: x = index % resolution, y = Math.floor(index / resolution)
tileXY(index, res) == [x |-> index % res, y |-> index \div res]

\* a retry delay that does not grow with the attempt
backoff_flat(attempt) == backoffUnit

\* loadImageWithRetry: the delay before the next attempt, 1000 * attempt
backoff(attempt) == backoffUnit * attempt

\* loadImageWithRetry: attempt < this.retryAttempts
canRetry(attempt) == attempt < retryAttempts

Terminal == {"loaded", "failed"}

\* a join that is satisfied by the first settled tile
allSettled_first(tile) == \E i \in DOMAIN tile : tile[i].phase \in Terminal

\* Promise.all(loadPromises): every per-tile promise has settled (each one
\* resolves, its rejection being caught by the per-tile catch)
allSettled(tile) == \A i \in DOMAIN tile : tile[i].phase \in Terminal

\* the record of a loadImages(grid, resolution, imageType) call up to its first
\* await: the image time is computed, and every img of the grid has its first
\* load attempt in flight; urlTime is the time argument of the getImageUrl call
\* that built the URL the attempt requests
newBatch(g, grid, res) ==
    [grid |-> g,
     serial |-> grid.serial,
     images |-> grid.images,
     resolution |-> res,
     totalCount |-> res * res,
     loadedCount |-> 0,
     imageTime |-> imageTimeOf(now, timeAlignment, timeOffset),
     tile |-> [i \in 0..(Len(grid.images) - 1) |->
                 [phase |-> "loading", attempt |-> 1, delays |-> <<>>,
                  urlTime |-> imageTimeOf(now, timeAlignment, timeOffset)]],
     progress |-> <<>>,       \* 'progress' notifications: <<loaded, total>>
     errors |-> <<>>,         \* 'error' notifications: [x, y]
     complete |-> <<>>]       \* 'complete' notifications: [loadedCount, totalCount]

\* the continuation after await Promise.all(loadPromises): emit 'complete'
join(bt) ==
    IF allSettled(bt.tile) /\ bt.complete = <<>>
    THEN [bt EXCEPT !.complete = Append(@, [loadedCount |-> bt.loadedCount,
                                            totalCount |-> bt.totalCount])]
    ELSE bt

\* tempImg.onload of tile i: loadImageWithRetry returns, the per-tile then()
\* counts the tile and emits 'progress'
tileLoaded(bt, i) ==
    LET n == bt.loadedCount + 1
    IN  join([bt EXCEPT !.tile[i].phase = "loaded",
                        !.loadedCount = n,
                        !.progress = Append(@, <<n, bt.totalCount>>)])

\* tempImg.onerror of tile i: loadImageWithRetry either starts the retry delay
\* or rethrows, and then the per-tile catch() emits 'error'
tileError(bt, i) ==
    LET t == bt.tile[i]
    IN  IF canRetry(t.attempt)
        THEN [bt EXCEPT !.tile[i].phase = "delay",
                        !.tile[i].delays = Append(@, backoff(t.attempt))]
        ELSE join([bt EXCEPT !.tile[i].phase = "failed",
                             !.errors = Append(@, tileXY(i, bt.resolution))])

\* a retry delay whose end starts no further attempt
retryTile_lost(bt, i) == bt

\* the retry delay of tile i ends: loadImageWithRetry(..., attempt + 1)
retryTile(bt, i) ==
    [bt EXCEPT !.tile[i].phase = "loading",
               !.tile[i].attempt = @ + 1,
               !.tile[i].urlTime = bt.imageTime]

\* tiles that have had a failed attempt
Faulty ==
    UNION {{<<b, i>> : i \in {j \in DOMAIN batches[b].tile :
                                \/ batches[b].tile[j].attempt > 1
                                \/ batches[b].tile[j].phase \in {"delay", "failed"}}} :
           b \in DOMAIN batches}

\* the environment lets a load attempt of tile i of batch b fail
MayFail(b, i) == <<b, i>> \in Faulty \/ Cardinality(Faulty) < MaxFaulty

\* ------------------------------------------------------------- SpecLoader
\* a caller builds a grid and calls imageLoader.loadImages(grid, resolution, type)
LoadImages(res) ==
    /\ batches = <<>>
    /\ created' = created + 1
    /\ grids' = [grids EXCEPT !["front"] = createGrid(created', res)]
    /\ batches' = <<newBatch("front", grids'["front"], res)>>
    /\ UNCHANGED <<zoomVars, viewerVars, timeVars>>

TileLoaded(b, i) ==
    /\ batches[b].tile[i].phase = "loading"
    /\ batches' = [batches EXCEPT ![b] = tileLoaded(@, i)]
    /\ UNCHANGED <<grids, created, zoomVars, viewerVars, timeVars>>

TileError(b, i) ==
    /\ batches[b].tile[i].phase = "loading"
    /\ MayFail(b, i)
    /\ batches' = [batches EXCEPT ![b] = tileError(@, i)]
    /\ UNCHANGED <<grids, created, zoomVars, viewerVars, timeVars>>

RetryTile(b, i) ==
    /\ batches[b].tile[i].phase = "delay"
    /\ batches' = [batches EXCEPT ![b] = retryTile(@, i)]
    /\ UNCHANGED <<grids, created, zoomVars, viewerVars, timeVars>>

\* ------------------------------------------------------------ HimawariViewer
InitBatch == 1      \* the loadImages call initialize() awaits is the first one

\* a swap that leaves both references on the surface that was inactive
swapped_same(refs) == <<refs[2], refs[2]>>

\* [this.activeGrid, this.inactiveGrid] = [this.inactiveGrid, this.activeGrid]
swapped(refs) == <<refs[2], refs[1]>>

\* ImageGridManager.swapGrids(): the two references change places
swapGrids ==
    /\ activeGrid' = swapped(<<activeGrid, inactiveGrid>>)[1]
    /\ inactiveGrid' = swapped(<<activeGrid, inactiveGrid>>)[2]
    /\ swaps' = swaps + 1

\* updateImages(): createGrid on the inactive grid, then loadImages on it
updateImages(res) ==
    /\ created' = created + 1
    /\ grids' = [grids EXCEPT ![inactiveGrid] = createGrid(created', res)]
    /\ batches' = Append(batches, newBatch(inactiveGrid, grids'[inactiveGrid], res))
    /\ cycles' = cycles + 1
    /\ earlyCycles' = IF isInitialized THEN earlyCycles ELSE earlyCycles + 1

\* handleLoadComplete(loadedCount, totalCount), called by the 'complete'
\* listener; for the batch initialize() awaits, followed in the same turn by
\* the rest of initialize(): startAutoUpdate() and isInitialized = true
handleLoadComplete(b) ==
    /\ lastCompleted' = b
    /\ wrapper' = gridDimensions(grids[activeGrid])
    /\ IF ~isInitialized
       THEN /\ swapTimers' = swapTimers
            /\ IF zoomToFit
               THEN ZoomManager_fitToScreen(container, gridDimensions(grids[activeGrid]))
               ELSE UNCHANGED <<zoomLevel, zoomToFit, lastOp, reapplied>>
       ELSE /\ swapTimers' = swapTimers + 1
            /\ UNCHANGED <<zoomLevel, zoomToFit, lastOp, reapplied>>
    /\ IF b = InitBatch
       THEN /\ updateTimer' = TRUE
            /\ isInitialized' = TRUE
            /\ initPc' = "done"
       ELSE UNCHANGED <<updateTimer, isInitialized, initPc>>
    /\ UNCHANGED <<script, container, content, resizeTimer, nAdjust,
                   resolution, activeGrid, inactiveGrid, destroyed, cycles,
                   earlyCycles, listeners, updateErrors, setCalls, swaps>>

\* a tile event of the viewer's loader: the loader's handler and, when it
\* emitted 'complete', the viewer's listener
loaderEvent(b, bt) ==
    /\ batches' = [batches EXCEPT ![b] = bt]
    /\ UNCHANGED <<grids, created, timeVars>>
    /\ IF Len(bt.complete) > Len(batches[b].complete)
       THEN handleLoadComplete(b)
       ELSE UNCHANGED <<zoomVars, viewerVars>>

\* DOMContentLoaded: viewer.initialize() up to its await
Initialize ==
    /\ initPc = "idle"
    /\ initPc' = "loading"
    /\ created' = created + 1
    /\ grids' = [grids EXCEPT ![activeGrid] = createGrid(created', resolution)]
    /\ batches' = Append(batches, newBatch(activeGrid, grids'[activeGrid], resolution))
    /\ content' = gridDimensions(grids'[activeGrid])
    /\ UNCHANGED <<script, zoomLevel, zoomToFit, container, resizeTimer, lastOp,
                   reapplied, nAdjust, resolution, activeGrid, inactiveGrid,
                   isInitialized, updateTimer, swapTimers, wrapper, destroyed,
                   cycles, earlyCycles, lastCompleted, listeners, updateErrors,
                   setCalls, swaps, timeVars>>

\* a setResolution that starts a refresh cycle whatever its argument
setResolutionChanges_always(current, res) == TRUE

\* setResolution: resolution !== this.config.get('resolution')
setResolutionChanges(current, res) == res # current

\* setResolution(resolution)
SetResolution(res) ==
    /\ initPc # "idle"
    /\ Len(setCalls) < MaxSetCalls
    /\ setCalls' = Append(setCalls, res)
    /\ IF setResolutionChanges(resolution, res)
       THEN /\ cycles < MaxCycles
            /\ resolution' = res
            /\ updateImages(res)
       ELSE UNCHANGED <<resolution, loaderVars, cycles, earlyCycles>>
    /\ UNCHANGED <<zoomVars, activeGrid, inactiveGrid, isInitialized, updateTimer,
                   initPc, swapTimers, wrapper, destroyed, lastCompleted, listeners,
                   updateErrors, swaps, timeVars>>

\* the setInterval callback of startAutoUpdate; updateImages() starts the cycle
Tick ==
    /\ updateTimer
    /\ cycles < MaxCycles
    /\ updateImages(resolution)
    /\ UNCHANGED <<zoomVars, resolution, activeGrid, inactiveGrid, isInitialized,
                   updateTimer, initPc, swapTimers, wrapper, destroyed, lastCompleted,
                   listeners, updateErrors, setCalls, swaps, timeVars>>

\* a setInterval callback whose failure clears the interval
TickFails_stops ==
    /\ updateTimer
    /\ Len(updateErrors) < MaxErrors
    /\ updateErrors' = Append(updateErrors, cycles)
    /\ updateTimer' = FALSE
    /\ UNCHANGED <<zoomVars, loaderVars, resolution, activeGrid, inactiveGrid,
                   isInitialized, initPc, swapTimers, wrapper, destroyed, cycles,
                   earlyCycles, lastCompleted, listeners, setCalls, swaps, timeVars>>

\* the setInterval callback of startAutoUpdate when updateImages() throws on
\* entry, before it has touched a grid: the rejection is caught and 'updateError'
\* emitted; nothing else changes, the interval included
TickFails ==
    /\ updateTimer
    /\ Len(updateErrors) < MaxErrors
    /\ updateErrors' = Append(updateErrors, cycles)
    /\ UNCHANGED <<zoomVars, loaderVars, resolution, activeGrid, inactiveGrid,
                   isInitialized, updateTimer, initPc, swapTimers, wrapper, destroyed,
                   cycles, earlyCycles, lastCompleted, listeners, setCalls, swaps,
                   timeVars>>

ViewerTileLoaded(b, i) ==
    /\ batches[b].tile[i].phase = "loading"
    /\ loaderEvent(b, tileLoaded(batches[b], i))

ViewerTileError(b, i) ==
    /\ batches[b].tile[i].phase = "loading"
    /\ MayFail(b, i)
    /\ loaderEvent(b, tileError(batches[b], i))

ViewerRetryTile(b, i) ==
    /\ batches[b].tile[i].phase = "delay"
    /\ loaderEvent(b, retryTile(batches[b], i))

\* the setTimeout callback of handleLoadComplete, delaySwapGrids later
SwapTimer ==
    /\ swapTimers > 0
    /\ swapTimers' = swapTimers - 1
    /\ swapGrids
    /\ content' = gridDimensions(grids[activeGrid'])
    /\ IF zoomToFit
       THEN ZoomManager_fitToScreen(container, gridDimensions(grids[activeGrid']))
       ELSE UNCHANGED <<zoomLevel, zoomToFit, lastOp, reapplied>>
    /\ UNCHANGED <<script, container, resizeTimer, nAdjust, loaderVars, resolution,
                   isInitialized, updateTimer, initPc, wrapper, destroyed, cycles,
                   earlyCycles, lastCompleted, listeners, updateErrors, setCalls,
                   timeVars>>

\* destroy(): stopAutoUpdate(), then removeEventListener('resize',
\* this.handleResize), which removes that function and no other
Destroy ==
    /\ initPc # "idle"
    /\ ~destroyed
    /\ destroyed' = TRUE
    /\ updateTimer' = FALSE
    /\ listeners' = listeners \ {"handleResize"}
    /\ UNCHANGED <<zoomVars, loaderVars, resolution, activeGrid, inactiveGrid,
                   isInitialized, initPc, swapTimers, wrapper, cycles, earlyCycles,
                   lastCompleted, updateErrors, setCalls, swaps, timeVars>>

\* -------------------------------------------------------- specifications
ViewerIdle ==
    /\ resolution \in 1..MaxRes      \* resolution: 4, scaled to the model's grids
    /\ activeGrid = "front"
    /\ inactiveGrid = "back"
    /\ isInitialized = FALSE
    /\ updateTimer = FALSE
    /\ initPc = "idle"
    /\ swapTimers = 0
    /\ wrapper = [width |-> 0, height |-> 0]
    /\ destroyed = FALSE
    /\ cycles = 0
    /\ earlyCycles = 0
    /\ lastCompleted = 0
    /\ listeners = {resizeListener}
    /\ updateErrors = <<>>
    /\ setCalls = <<>>
    /\ swaps = 0

LoaderIdle ==
    /\ batches = <<>>
    /\ grids = [g \in GridIds |-> EmptyGrid]
    /\ created = 0

\* no image time computed and no URL built yet
TimeIdle ==
    /\ timeAlignment = defaultAlignment
    /\ timeOffset = defaultOffset
    /\ imageTime = 0
    /\ timeAt = 0
    /\ url = NoUrl
    /\ preload = NoPreload

InitZoom ==
    /\ script \in Scripts
    /\ zoomLevel = One          \* zoomLevel: 1
    /\ zoomToFit = TRUE         \* zoomToFit: true
    /\ container \in Sizes
    /\ content \in Sizes
    /\ resizeTimer = FALSE
    /\ lastOp = NoOp
    /\ reapplied = FALSE
    /\ nAdjust = 0
    /\ LoaderIdle
    /\ ViewerIdle
    /\ TimeIdle
    /\ now = msPerDay

NextZoom ==
    \/ \E f \in Factors : adjustZoom(f) /\ UNCHANGED <<loaderVars, viewerVars, timeVars>>
    \/ fitToScreen /\ UNCHANGED <<loaderVars, viewerVars, timeVars>>
    \/ resetZoom /\ UNCHANGED <<loaderVars, viewerVars, timeVars>>
    \/ \E s \in Sizes : WindowResize(s) /\ UNCHANGED <<loaderVars, viewerVars, timeVars>>
    \/ handleResize /\ UNCHANGED <<loaderVars, viewerVars, timeVars>>
    \/ \E f \in Factors : main_adjustZoom(f) /\ UNCHANGED <<loaderVars, viewerVars, timeVars>>
    \/ main_toggleFitToScreen /\ UNCHANGED <<loaderVars, viewerVars, timeVars>>
    \/ main_imagesLoaded /\ UNCHANGED <<loaderVars, viewerVars, timeVars>>
    \/ \E s \in Sizes : main_handleResize(s) /\ UNCHANGED <<loaderVars, viewerVars, timeVars>>

SpecZoom == InitZoom /\ [][NextZoom]_vars

ZoomIdle ==
    /\ script = "part_000"
    /\ zoomLevel = One
    /\ zoomToFit = TRUE
    /\ container \in {[width |-> 2, height |-> 1]}
    /\ content = gridDimensions(EmptyGrid)
    /\ resizeTimer = FALSE
    /\ lastOp = NoOp
    /\ reapplied = FALSE
    /\ nAdjust = 0

InitLoader == ZoomIdle /\ LoaderIdle /\ ViewerIdle /\ TimeIdle /\ now = msPerDay

TileStep ==
    \/ \E b \in DOMAIN batches : \E i \in DOMAIN batches[b].tile : TileLoaded(b, i)
    \/ \E b \in DOMAIN batches : \E i \in DOMAIN batches[b].tile : TileError(b, i)
    \/ \E b \in DOMAIN batches : \E i \in DOMAIN batches[b].tile : RetryTile(b, i)

NextLoader ==
    \/ \E r \in 1..MaxRes : LoadImages(r)
    \/ TileStep

SpecLoader == InitLoader /\ [][NextLoader]_vars

\* every load attempt in flight fires onload or onerror, and every retry delay
\* runs out: a tile event that stays possible eventually happens
SpecLoaderFair == InitLoader /\ [][NextLoader]_vars /\ WF_vars(TileStep)

Init ==
    /\ ZoomIdle
    /\ LoaderIdle
    /\ ViewerIdle
    /\ TimeIdle
    /\ now = msPerDay

Next ==
    \/ Initialize
    \/ \E r \in 1..MaxRes : SetResolution(r)
    \/ Tick
    \/ \E b \in DOMAIN batches : \E i \in DOMAIN batches[b].tile : ViewerTileLoaded(b, i)
    \/ \E b \in DOMAIN batches : \E i \in DOMAIN batches[b].tile : ViewerTileError(b, i)
    \/ \E b \in DOMAIN batches : \E i \in DOMAIN batches[b].tile : ViewerRetryTile(b, i)
    \/ SwapTimer
    \/ Destroy
    \/ fitToScreen /\ initPc # "idle" /\ UNCHANGED <<loaderVars, viewerVars, timeVars>>
    \/ resetZoom /\ initPc # "idle" /\ UNCHANGED <<loaderVars, viewerVars, timeVars>>

Spec == Init /\ [][Next]_vars

\* the viewer with its interval, its resize listener and destroy(), at the
\* resolution it was constructed with
InitLife == Init /\ resolution = 1

\* the window is resized to a larger square or to a portrait shape
LifeSizes == {[width |-> 2, height |-> 2], [width |-> 1, height |-> 2]}

NextLife ==
    \/ Initialize
    \/ Tick
    \/ TickFails
    \/ \E b \in DOMAIN batches : \E i \in DOMAIN batches[b].tile : ViewerTileLoaded(b, i)
    \/ \E b \in DOMAIN batches : \E i \in DOMAIN batches[b].tile : ViewerTileError(b, i)
    \/ \E b \in DOMAIN batches : \E i \in DOMAIN batches[b].tile : ViewerRetryTile(b, i)
    \/ SwapTimer
    \/ Destroy
    \/ \E s \in LifeSizes : WindowResize(s) /\ UNCHANGED <<loaderVars, viewerVars, timeVars>>
    \/ handleResize /\ initPc # "idle" /\ UNCHANGED <<loaderVars, viewerVars, timeVars>>
    \/ resetZoom /\ initPc # "idle" /\ UNCHANGED <<loaderVars, viewerVars, timeVars>>

SpecLife == InitLife /\ [][NextLife]_vars

\* the page runs one of the two scripts
InitTime ==
    /\ script \in Scripts
    /\ zoomLevel = One
    /\ zoomToFit = TRUE
    /\ container \in {[width |-> 2, height |-> 1]}
    /\ content = gridDimensions(EmptyGrid)
    /\ resizeTimer = FALSE
    /\ lastOp = NoOp
    /\ reapplied = FALSE
    /\ nAdjust = 0
    /\ LoaderIdle
    /\ ViewerIdle
    /\ now \in Clock
    /\ IF script = "part_000"
       THEN timeAlignment \in Alignments /\ timeOffset \in Offsets
       ELSE timeAlignment = defaultAlignment /\ timeOffset = defaultOffset
    /\ imageTime = 0
    /\ timeAt = 0
    /\ url = NoUrl
    /\ preload = NoPreload

NextTime ==
    \/ \E t \in Clock : ClockAdvance(t) /\ UNCHANGED <<zoomVars, loaderVars, viewerVars>>
    \/ calculateImageTime /\ UNCHANGED <<zoomVars, loaderVars, viewerVars>>
    \/ \E x, y \in 0..(resolution - 1) :
          GetImageUrl(x, y) /\ UNCHANGED <<zoomVars, loaderVars, viewerVars>>
    \/ \E x, y \in 0..(resolution - 1) :
          /\ main_getHimawariUrl(resolution, x, y, imageType)
          /\ UNCHANGED <<zoomVars, loaderVars, viewerVars, preload>>

SpecTime == InitTime /\ [][NextTime]_vars

\* one load cycle of either script at the default configuration, the wall
\* clock running on while the cycle lasts
InitFetch ==
    /\ InitTime
    /\ timeAlignment = defaultAlignment
    /\ timeOffset = defaultOffset

NextFetch ==
    \/ \E t \in Clock : ClockAdvance(t) /\ UNCHANGED <<zoomVars, loaderVars, viewerVars>>
    \/ script = "part_000" /\ LoadImages(resolution)
    \/ TileStep
    \/ main_createImageGrid(resolution) /\ UNCHANGED <<zoomVars, loaderVars, viewerVars>>
    \/ main_preloadTile /\ UNCHANGED <<zoomVars, loaderVars, viewerVars>>

SpecFetch == InitFetch /\ [][NextFetch]_vars

\* ---------------------------------------------------- claims on the viewer
\* every slot of surface g is loaded or failed, in the load cycle that built it
SurfaceSettled(g) ==
    \E b \in DOMAIN batches :
        /\ batches[b].serial = grids[g].serial
        /\ \A i \in DOMAIN batches[b].tile : batches[b].tile[i].phase \in Terminal

\* C1 (as stated): whenever swapGrids() runs, every slot of the surface that
\* becomes active is loaded or failed in the load cycle that last rebuilt it.
C1_SwapOnlySettled ==
    [][activeGrid' # activeGrid => SurfaceSettled(activeGrid')]_vars

\* every refresh cycle has finished, its swap delay included; all of them
\* were started by a tick or a setResolution() of the initialized viewer
Quiescent ==
    /\ initPc = "done"
    /\ cycles > 0
    /\ earlyCycles = 0
    /\ swapTimers = 0
    /\ \A b \in DOMAIN batches : batches[b].complete # <<>>

\* C2 (as stated): once every refresh cycle has finished, swap delays
\* included, the active surface is the one the load cycle that completed last
\* populated, and it has the configured resolution.
C2_ActiveIsLatest ==
    Quiescent =>
        /\ grids[activeGrid].serial = batches[lastCompleted].serial
        /\ grids[activeGrid].columns = resolution

\* C11: the interval is cleared by destroy() and by nothing else; a tick whose
\* updateImages() fails emits one 'updateError' and leaves the interval, the
\* grids and the batches as they were; and while the interval runs the next
\* tick can start a refresh cycle.
C11_TickFailureKeepsSchedule ==
    /\ []((updateTimer /\ cycles < MaxCycles) => ENABLED Tick)
    /\ [][/\ (updateTimer /\ ~updateTimer') => (~destroyed /\ destroyed')
          /\ (updateErrors' # updateErrors) =>
                /\ updateTimer /\ updateTimer'
                /\ updateErrors' = Append(updateErrors, cycles)
                /\ UNCHANGED <<loaderVars, cycles>>]_vars

\* C11 witness: a tick failed and reported 'updateError', and a later tick of
\* the same interval has started a refresh cycle.
C11_Witness ==
    /\ Len(updateErrors) > 0
    /\ cycles > updateErrors[1]
    /\ updateTimer
    /\ ~destroyed

\* C12 (as stated): once destroy() has returned, the interval is never running
\* again and no tick starts a refresh cycle or reports an error, the resize
\* listener is no longer registered, and a resize event arms no debounce
\* timeout, so that it cannot change the zoom.
C12_DestroyIsTerminal ==
    [][destroyed =>
          /\ ~updateTimer'
          /\ cycles' = cycles
          /\ updateErrors' = updateErrors
          /\ resizeListener \notin listeners'
          /\ (container' # container /\ ~resizeTimer) => ~resizeTimer']_vars

SetStep == Len(setCalls') = Len(setCalls) + 1

\* C13: setResolution(n) with n the configured resolution changes nothing;
\* with another n it sets the configured resolution to n and starts exactly
\* one refresh cycle, whose batch loads the n * n fresh slots of the inactive
\* surface; the active surface, the surface references, the interval, the
\* pending swaps and the initialization state are as before.
C13_SetResolutionFrame ==
    [][SetStep =>
          LET n == setCalls'[Len(setCalls')]
          IN  IF n = resolution
              THEN UNCHANGED <<zoomVars, loaderVars, resolution, activeGrid, inactiveGrid,
                               isInitialized, updateTimer, initPc, swapTimers, cycles>>
              ELSE /\ resolution' = n
                   /\ cycles' = cycles + 1
                   /\ Len(batches') = Len(batches) + 1
                   /\ \A b \in DOMAIN batches : batches'[b] = batches[b]
                   /\ LET bt == batches'[Len(batches')]
                      IN  /\ bt.grid = inactiveGrid
                          /\ bt.serial = grids'[inactiveGrid].serial
                          /\ bt.resolution = n
                          /\ DOMAIN bt.tile = 0..(n * n - 1)
                          /\ \A i \in DOMAIN bt.tile : bt.tile[i].phase = "loading"
                   /\ grids'[inactiveGrid].columns = n
                   /\ Len(grids'[inactiveGrid].images) = n * n
                   /\ grids'[inactiveGrid].serial # grids[inactiveGrid].serial
                   /\ grids'[activeGrid] = grids[activeGrid]
                   /\ UNCHANGED <<activeGrid, inactiveGrid, isInitialized, updateTimer,
                                  initPc, swapTimers>>]_vars

\* C13 witness: setResolution(2) on a viewer of resolution 1 has rebuilt the
\* inactive surface with 4 slots, the active one still having its single slot.
C13_Witness ==
    /\ setCalls = <<2>>
    /\ resolution = 2
    /\ Len(grids[inactiveGrid].images) = 4
    /\ Len(grids[activeGrid].images) = 1
    /\ batches[Len(batches)].serial = grids[inactiveGrid].serial

\* C14: swapping twice gives back the assignment of the two references, and
\* every swapGrids() exchanges them, leaving them distinct and exactly the
\* front and the back surface.
C14_SwapInvolution ==
    /\ [](/\ swapped(swapped(<<activeGrid, inactiveGrid>>)) = <<activeGrid, inactiveGrid>>
          /\ activeGrid # inactiveGrid
          /\ {activeGrid, inactiveGrid} = {"front", "back"})
    /\ [][swaps' # swaps =>
              /\ activeGrid' = inactiveGrid
              /\ inactiveGrid' = activeGrid]_vars

\* C14 witness: swapGrids() has run twice, and front is the active surface and
\* back the inactive one, as constructed.
C14_Witness ==
    /\ swaps = 2
    /\ activeGrid = "front"
    /\ inactiveGrid = "back"

\* C19 (as stated): each completed load of a refresh cycle has one swap, done or
\* pending, and the completed initial load has none.
C19_OneSwapPerCycle ==
    swaps + swapTimers =
        Cardinality({b \in DOMAIN batches : b # InitBatch /\ batches[b].complete # <<>>})

\* ---------------------------------------------------- claims on the loader
Failed(bt) == {i \in DOMAIN bt.tile : bt.tile[i].phase = "failed"}

Count(seq, v) == Cardinality({k \in DOMAIN seq : seq[k] = v})

\* C3: every loadImages call emits 'complete' at most once, and exactly once
\* as soon as -- and never before -- each of its resolution * resolution tiles
\* is loaded or has failed its last attempt.
C3_CompleteOnceAfterAll ==
    \A b \in DOMAIN batches :
        LET bt == batches[b]
            done == \A i \in DOMAIN bt.tile : bt.tile[i].phase \in Terminal
        IN  /\ Len(bt.complete) <= 1
            /\ DOMAIN bt.tile = 0..(bt.resolution * bt.resolution - 1)
            /\ Len(bt.complete) = 1 <=> done
            /\ \A i \in Failed(bt) : bt.tile[i].attempt = retryAttempts

\* C3 witness: a completed batch of more than one tile in which one tile
\* failed for good and another one needed no retry.
C3_Witness ==
    \E b \in DOMAIN batches :
        LET bt == batches[b]
        IN  /\ Len(bt.complete) = 1
            /\ bt.resolution > 1
            /\ Failed(bt) # {}
            /\ \E i \in DOMAIN bt.tile : bt.tile[i].phase = "loaded" /\ bt.tile[i].attempt = 1

\* C4: a batch of N * N tiles of which k failed for good reports
\* totalCount = N * N and loadedCount = N * N - k, and has emitted exactly one
\* 'error' for each failed tile, carrying the x and y of that tile's img, and
\* none for any other tile.
C4_PartialFailureCounts ==
    \A b \in DOMAIN batches :
        LET bt == batches[b]
            n == bt.resolution * bt.resolution
            k == Cardinality(Failed(bt))
        IN  /\ Len(bt.errors) = k
            /\ \A i \in DOMAIN bt.tile :
                  Count(bt.errors, bt.images[i + 1]) = IF i \in Failed(bt) THEN 1 ELSE 0
            /\ Len(bt.complete) > 0 =>
                  /\ bt.complete[1].totalCount = n
                  /\ bt.complete[1].loadedCount = n - k

\* C4 witness: a completed batch of resolution 2 in which exactly the tile at
\* x = 1, y = 0 failed: loadedCount = 3, totalCount = 4, one error for (1, 0).
C4_Witness ==
    \E b \in DOMAIN batches :
        LET bt == batches[b]
        IN  /\ bt.resolution = 2
            /\ bt.complete = <<[loadedCount |-> 3, totalCount |-> 4]>>
            /\ Failed(bt) = {1}
            /\ bt.errors = <<[x |-> 1, y |-> 0]>>

\* C5: a tile is attempted at most retryAttempts times; the delay after its
\* i-th failed attempt is 1000 * i ms; there is a delay after every failed
\* attempt but the last, so a tile that failed for good has waited 1000 and
\* 2000 ms and no more.
C5_BoundedLinearBackoff ==
    \A b \in DOMAIN batches : \A i \in DOMAIN batches[b].tile :
        LET t == batches[b].tile[i]
        IN  /\ t.attempt \in 1..retryAttempts
            /\ t.delays = [k \in 1..Len(t.delays) |-> 1000 * k]
            /\ Len(t.delays) = IF t.phase = "delay" THEN t.attempt ELSE t.attempt - 1
            /\ t.phase = "failed" => t.attempt = 3 /\ t.delays = <<1000, 2000>>
            /\ t.phase = "delay" => t.attempt < 3

\* C5 witness: a tile that failed on attempts 1 and 2 and loaded on attempt 3,
\* after delays of 1000 ms and 2000 ms.
C5_Witness ==
    \E b \in DOMAIN batches : \E i \in DOMAIN batches[b].tile :
        LET t == batches[b].tile[i]
        IN  t.phase = "loaded" /\ t.attempt = 3 /\ t.delays = <<1000, 2000>>

\* C17 (as stated): a batch has emitted one 'progress' for each of its tiles
\* that is loaded or has failed for good, so N * N of them when it completes.
C17_ProgressPerTile ==
    \A b \in DOMAIN batches :
        /\ Len(batches[b].progress) =
              Cardinality({i \in DOMAIN batches[b].tile :
                              batches[b].tile[i].phase \in Terminal})
        /\ batches[b].complete # <<>> => Len(batches[b].progress) = batches[b].totalCount

\* C18: when every load attempt fires a callback and every retry delay runs
\* out, each loadImages call emits 'complete'.
C18_BatchTerminates ==
    [](batches # <<>> => <>(\A b \in DOMAIN batches : Len(batches[b].complete) = 1))

\* C18 witness: a completed batch of 4 tiles in which one tile loaded on a
\* retry and the others at once.
C18_Witness ==
    \E b \in DOMAIN batches :
        LET bt == batches[b]
        IN  /\ Len(bt.complete) = 1
            /\ bt.totalCount = 4
            /\ \E i \in DOMAIN bt.tile : bt.tile[i].phase = "loaded" /\ bt.tile[i].attempt = 2
            /\ bt.complete[1].loadedCount = 4

\* ------------------------------------------------------ claims on the zoom
ZoomOps == {"adjustZoom", "resetZoom", "fitToScreen", "applySafeZoom"}

\* content * zoom <= container on both axes
NoClip(z, c, g) ==
    /\ g.width * z[1] <= c.width * z[2]
    /\ g.height * z[1] <= c.height * z[2]

\* min(containerWidth / contentWidth, containerHeight / contentHeight), spelled out
MinRatio(c, g) ==
    IF c.width * g.height <= c.height * g.width
    THEN Rat(c.width, g.width) ELSE Rat(c.height, g.height)

\* zoom clamped into [minZoom, maxZoom], spelled out
Clamped(z) ==
    IF RLt(z, <<1, 5>>) THEN <<1, 5>> ELSE IF RLt(<<5, 1>>, z) THEN <<5, 1>> ELSE z

AdjustStep == nAdjust' = nAdjust + 1

\* C6: right after fitToScreen the zoom level is the smaller of the two
\* container/content ratios, the content fits the container on both axes, and
\* fit-mode is on.
C6_FitToScreenFits ==
    lastOp.name = "fitToScreen" =>
        /\ zoomLevel = MinRatio(lastOp.container, lastOp.content)
        /\ NoClip(zoomLevel, lastOp.container, lastOp.content)
        /\ zoomToFit = TRUE

\* C6 witness: a fit on a container whose two ratios differ, so that the choice
\* of the smaller one matters (the height ratio is the binding one).
C6_Witness ==
    /\ lastOp.name = "fitToScreen"
    /\ script = "part_000"
    /\ RLt(Rat(lastOp.container.height, lastOp.content.height),
           Rat(lastOp.container.width, lastOp.content.width))
    /\ zoomLevel = Rat(lastOp.container.height, lastOp.content.height)

\* C7 (as stated): after any of the zoom operations the content, scaled by the
\* zoom level, does not exceed the container it was applied in.
C7_NeverClips ==
    lastOp.name \in ZoomOps => NoClip(zoomLevel, lastOp.container, lastOp.content)

\* C8 (as stated): adjustZoom(factor) turns fit-mode off and leaves the previous
\* zoom times factor clamped into [minZoom, maxZoom].
C8_AdjustZoomClampsEverywhere ==
    [][AdjustStep =>
          /\ zoomToFit' = FALSE
          /\ zoomLevel' = Clamped(RMul(zoomLevel, lastOp'.factor))
          /\ RLe(minZoom, zoomLevel') /\ RLe(zoomLevel', maxZoom)]_vars

\* C8 (amended): adjustZoom(factor) turns fit-mode off in both scripts.  In
\* part_000 it leaves the previous zoom times factor clamped into
\* [minZoom, maxZoom]; in main.js the clamped value is then lowered to the safe
\* bound min(containerWidth/contentWidth, containerHeight/contentHeight), so it
\* never exceeds maxZoom but may end below minZoom.
C8_AdjustZoomClamps ==
    [][AdjustStep =>
          LET clamped == Clamped(RMul(zoomLevel, lastOp'.factor))
              safe == MinRatio(container, content)
          IN  /\ zoomToFit' = FALSE
              /\ RLe(zoomLevel', maxZoom)
              /\ script = "part_000" =>
                    /\ zoomLevel' = clamped
                    /\ RLe(minZoom, zoomLevel')
              /\ script = "main.js" =>
                    zoomLevel' = IF RLt(safe, clamped) THEN safe ELSE clamped]_vars

\* C8 witness: an adjustZoom of part_000 whose product was clamped at a bound,
\* reached from a zoom level that fitToScreen had set outside [minZoom, maxZoom].
C8_Witness ==
    /\ lastOp.name = "adjustZoom"
    /\ script = "part_000"
    /\ zoomLevel \in {minZoom, maxZoom}
    /\ zoomToFit = FALSE

\* C9 (as stated): adjustZoom(f) with f > 1 never lowers the zoom level and
\* adjustZoom(f) with 0 < f < 1 never raises it.
C9_AdjustZoomMonotonic ==
    [][AdjustStep =>
          /\ RLt(One, lastOp'.factor) => RLe(zoomLevel, zoomLevel')
          /\ RLt(lastOp'.factor, One) => RLe(zoomLevel', zoomLevel)]_vars

\* C10 (as stated): any zoom operation applied a second time on the same
\* inputs leaves the zoom level and the fit-mode flag as the first left them.
C10_AllIdempotent ==
    [][(reapplied' /\ lastOp'.name \in ZoomOps) =>
          (zoomLevel' = zoomLevel /\ zoomToFit' = zoomToFit)]_vars

\* C10 (amended): fitToScreen, applySafeZoom and resetZoom are idempotent on
\* unchanged inputs; adjustZoom(factor) is idempotent for factor = 1 only (a
\* second adjustZoom multiplies by the factor again).
C10_Idempotent ==
    [][(/\ reapplied'
        /\ \/ lastOp'.name \in ZoomOps \ {"adjustZoom"}
           \/ lastOp'.name = "adjustZoom" /\ lastOp'.factor = One) =>
          (zoomLevel' = zoomLevel /\ zoomToFit' = zoomToFit)]_vars

\* C10 witness: applySafeZoom has run twice in a row on the same container and
\* content, after having lowered the zoom level the first time.
C10_Witness ==
    /\ reapplied
    /\ lastOp.name = "applySafeZoom"
    /\ zoomLevel = MinRatio(lastOp.container, lastOp.content)
    /\ zoomLevel # One

\* a step that is one applySafeZoom call: handleResize with fit-mode off
SafeZoomStep ==
    /\ lastOp'.name = "applySafeZoom"
    /\ script = "main.js" \/ (resizeTimer /\ ~resizeTimer')

\* C20: applySafeZoom(container, content) leaves the smaller of the previous
\* zoom level and min(containerWidth/contentWidth, containerHeight/contentHeight),
\* never a larger zoom level than before, and the fit-mode flag as it was.
C20_SafeZoomNeverExpands ==
    [][SafeZoomStep =>
          LET bound == MinRatio(lastOp'.container, lastOp'.content)
          IN  /\ zoomLevel' = IF RLt(bound, zoomLevel) THEN bound ELSE zoomLevel
              /\ RLe(zoomLevel', zoomLevel)
              /\ zoomToFit' = zoomToFit
              /\ zoomToFit = FALSE]_vars

\* C20 witness: applySafeZoom has run once on a container larger than the
\* content and has left a zoom level of 1 below the bound.
C20_Witness ==
    /\ lastOp.name = "applySafeZoom"
    /\ ~reapplied
    /\ zoomLevel = One
    /\ RLt(One, MinRatio(lastOp.container, lastOp.content))
    /\ zoomToFit = FALSE

\* ------------------------------------------------ claims on the image time
\* C15: the image time is the wall clock truncated down to a multiple of the
\* alignment and moved back by the offset; with the default alignment and
\* offset, 12:07:00 UTC gives 11:30:00 UTC of the same day.
C15_TimeBucketing ==
    timeAt > 0 =>
        /\ (imageTime + timeOffset) % timeAlignment = 0
        /\ imageTime + timeOffset <= timeAt
        /\ timeAt < imageTime + timeOffset + timeAlignment
        /\ imageTime = timeAt - (timeAt % timeAlignment) - timeOffset
        /\ (/\ timeAlignment = 600000
            /\ timeOffset = 1800000
            /\ timeAt % 86400000 = 12 * 3600000 + 7 * 60000) =>
                imageTime = timeAt - (timeAt % 86400000) + 11 * 3600000 + 30 * 60000

\* C15 witness: part_000 has computed the image time at 12:07:00 UTC with the
\* default configuration.
C15_Witness ==
    /\ script = "part_000"
    /\ timeAlignment = 600000
    /\ timeOffset = 1800000
    /\ timeAt % 86400000 = 12 * 3600000 + 7 * 60000
    /\ imageTime % 86400000 = 11 * 3600000 + 30 * 60000

\* C16 (as stated): the URL built for a tile is the template filled with the
\* tile-set id, the resolution, the zero-padded UTC year/month/day/hour/minute
\* of the image time, and the column and row.
C16_UrlFromBucketTime ==
    url # NoUrl =>
        url.text = urlText(url.imageType, url.resolution,
                           ToString(utcDate(url.time).year) \o "/" \o
                           padStart2(utcDate(url.time).month) \o "/" \o
                           padStart2(utcDate(url.time).date) \o "/" \o
                           padStart2((url.time \div 3600000) % 24) \o
                           padStart2((url.time \div 60000) % 60),
                           url.x, url.y)

\* C21 (as stated): every URL requested in one load cycle, by a first attempt
\* or by a retry, is built from one image time, the one computed when the
\* cycle started.
C21_OneBucketPerCycle ==
    /\ \A b \in DOMAIN batches : \A i \in DOMAIN batches[b].tile :
          /\ batches[b].tile[i].urlTime = batches[b].imageTime
          /\ getImageUrl(tileXY(i, batches[b].resolution).x,
                         tileXY(i, batches[b].resolution).y,
                         batches[b].resolution, imageType, batches[b].tile[i].urlTime)
                = getImageUrl(tileXY(i, batches[b].resolution).x,
                              tileXY(i, batches[b].resolution).y,
                              batches[b].resolution, imageType, batches[b].imageTime)
    /\ \A k \in DOMAIN preload.requests :
          preload.requests[k].time = preload.requests[1].time

\* C22 (as stated): when swapGrids() has run, the wrapper has the width and
\* height of the surface that is now active.
C22_WrapperFitsActive ==
    [][swaps' # swaps => wrapper' = gridDimensions(grids'[activeGrid'])]_vars

====
